---------------------------- MODULE Spec2Model ----------------------------
(***************************************************************************)
(* Batch file-format conversion (MSC72m/pdf-convertor).                    *)
(*                                                                         *)
(* The repository holds the same orchestration twice: the single module    *)
(* convertor.py, which main.py dispatches to, and the package              *)
(* file_converter.  One run of convert_all_files is modelled: discovery of *)
(* the input files, creation of the output directory, one asyncio task per *)
(* convert-unit collected by asyncio.gather, the worker threads of the     *)
(* loop's default executor that do the conversions, and what the caller    *)
(* (asyncio.run in main.py, or a coroutine awaiting the call, as the tests *)
(* do) sees afterwards.                                                    *)
(*                                                                         *)
(* File names are sequences of one-character strings, so that the string   *)
(* functions of the code (endswith, splitext, Path.stem, isdigit, rstrip)  *)
(* are computed as the code computes them.                                 *)
(***************************************************************************)
EXTENDS Integers, Sequences, FiniteSets, TLC

(***************************************************************************)
(* Bounds of the model.                                                    *)
(***************************************************************************)
\* Most entries of the input directory in a run of Spec.
MaxFiles == 2

\* Most entries of the input directory in a run of SpecGrouping.
MaxGroupFiles == 4

\* Most pages of an input PDF.
MaxPages == 2

(***************************************************************************)
(* Strings.                                                                *)
(***************************************************************************)
Digits == {"0", "1", "2", "3", "4", "5", "6", "7", "8", "9"}

\* str.isdigit() of one character.
isdigit(c) == c \in Digits

\* The characters of rstrip('_-. ').
StripChars == {"_", "-", ".", " "}

\* s.endswith(suffix)
endswith(s, suffix) ==
    /\ Len(suffix) <= Len(s)
    /\ SubSeq(s, Len(s) - Len(suffix) + 1, Len(s)) = suffix

\* s.rfind('.') counted from 1; 0 when s holds no dot.
rfind_dot(s) ==
    LET dots == {i \in 1..Len(s) : s[i] = "."}
    IN  IF dots = {} THEN 0 ELSE CHOOSE i \in dots : \A k \in dots : k <= i

\* s.rstrip(chars)
RECURSIVE rstrip(_, _)
rstrip(s, chars) ==
    IF s # <<>> /\ s[Len(s)] \in chars
    THEN rstrip(SubSeq(s, 1, Len(s) - 1), chars)
    ELSE s

\* ''.join(c for c in s if not c.isdigit())
remove_digits(s) == SelectSeq(s, LAMBDA c : ~isdigit(c))

\* os.path.splitext(name)[0] of a name without directory part: the last dot
\* splits the name unless only dots come before it.
splitext_root(name) ==
    LET d == rfind_dot(name)
    IN  IF d > 0 /\ \E i \in 1..(d - 1) : name[i] # "."
        THEN SubSeq(name, 1, d - 1)
        ELSE name

\* pathlib.PurePath(name).stem: the name without its suffix; a name that
\* starts with its only dot, or ends with a dot, has no suffix.
stem(name) ==
    LET d == rfind_dot(name)
    IN  IF 1 < d /\ d < Len(name) THEN SubSeq(name, 1, d - 1) ELSE name


(***************************************************************************)
(* The converters.                                                         *)
(***************************************************************************)
PDF  == <<".", "p", "d", "f">>
DOCX == <<".", "d", "o", "c", "x">>
JPG  == <<".", "j", "p", "g">>
PPTX == <<".", "p", "p", "t", "x">>
XLSX == <<".", "x", "l", "s", "x">>
HTML == <<".", "h", "t", "m", "l">>

\* The keys of converter_map, which are also the choices of --conversion_type.
converter_map ==
    {"pdf_to_docx", "pdf_to_jpg", "pdf_to_pptx", "pdf_to_xlsx", "pdf_to_pdfa",
     "jpg_to_pdf", "docx_to_pdf", "pptx_to_pdf", "xlsx_to_pdf", "html_to_pdf"}

\* self.input_extension of each converter class.
input_extension(ct) ==
    CASE ct \in {"pdf_to_docx", "pdf_to_jpg", "pdf_to_pptx", "pdf_to_xlsx",
                 "pdf_to_pdfa"} -> PDF
      [] ct = "jpg_to_pdf"  -> JPG
      [] ct = "docx_to_pdf" -> DOCX
      [] ct = "pptx_to_pdf" -> PPTX
      [] ct = "xlsx_to_pdf" -> XLSX
      [] ct = "html_to_pdf" -> HTML

\* self.output_extension of each converter class.
output_extension(ct) ==
    CASE ct = "pdf_to_docx" -> DOCX
      [] ct = "pdf_to_jpg"  -> JPG
      [] ct = "pdf_to_pptx" -> PPTX
      [] ct = "pdf_to_xlsx" -> XLSX
      [] ct \in {"pdf_to_pdfa", "jpg_to_pdf", "docx_to_pdf", "pptx_to_pdf",
                 "xlsx_to_pdf", "html_to_pdf"} -> PDF

\* The two layouts of the repository.
Layouts == {"convertor", "file_converter"}

\* What a unit's conversion does, by layout and converter class:
\*   "placeholder"  _convert_single_file only prints and returns;
\*   "write"        _convert_sync writes the output path through a library;
\*   "open_write"   _convert_sync opens the output path, then converts;
\*   "pages"        _convert_sync saves one image per page of the input;
\*   "slides"       _convert_sync makes one slide per page through a
\*                  temporary file, then saves the output path;
\*   "undefined"    _convert_sync calls a name the module does not define.
convert_kind(lay, ct) ==
    CASE ct \in {"pptx_to_pdf", "xlsx_to_pdf"} -> "placeholder"
      [] ct = "docx_to_pdf" ->
            IF lay = "convertor" THEN "undefined" ELSE "placeholder"
      [] ct = "pdf_to_xlsx" ->
            IF lay = "convertor" THEN "write" ELSE "placeholder"
      [] ct \in {"pdf_to_docx", "pdf_to_pdfa", "html_to_pdf"} -> "write"
      [] ct = "jpg_to_pdf"  -> "open_write"
      [] ct = "pdf_to_jpg"  -> "pages"
      [] ct = "pdf_to_pptx" -> "slides"

\* Whether _convert_single_file hands the conversion to loop.run_in_executor.
uses_executor(lay, ct) == convert_kind(lay, ct) # "placeholder"

(***************************************************************************)
(* Keyed grouping (JPGToPDFConverter.convert_all_files).                   *)
(***************************************************************************)
\* base_name of one file: the stem without its digits, right-stripped of
\* separators; the stem itself when nothing is left.
group_key(name) ==
    LET base_name == rstrip(remove_digits(stem(name)), StripChars)
    IN  IF base_name = <<>> THEN stem(name) ELSE base_name

\* add_to_group with the slip "file_groups[base_name] = [file_path]": a
\* file replaces the files its group held.
add_to_group_replace(groups, key, file_path) ==
    IF \E i \in 1..Len(groups) : groups[i].key = key
    THEN [i \in 1..Len(groups) |->
            IF groups[i].key = key
            THEN [groups[i] EXCEPT !.files = <<file_path>>]
            ELSE groups[i]]
    ELSE Append(groups, [key |-> key, files |-> <<file_path>>])

\* file_groups[base_name].append(file_path), with the list created first
\* when the key is new.  A dict keeps its keys in insertion order: groups is
\* the sequence of its items.
add_to_group(groups, key, file_path) ==
    IF \E i \in 1..Len(groups) : groups[i].key = key
    THEN [i \in 1..Len(groups) |->
            IF groups[i].key = key
            THEN [groups[i] EXCEPT !.files = Append(@, file_path)]
            ELSE groups[i]]
    ELSE Append(groups, [key |-> key, files |-> <<file_path>>])

\* The grouping loop over self._input_files.
RECURSIVE group_files(_, _)
group_files(files, groups) ==
    IF files = <<>>
    THEN groups
    ELSE group_files(Tail(files),
                     add_to_group(groups, group_key(Head(files)), Head(files)))

(***************************************************************************)
(* State.                                                                  *)
(***************************************************************************)
VARIABLES
    layout,           \* "convertor" or "file_converter": whose classes run
    entry,            \* "main": main.py under asyncio.run; "await": a
                      \* coroutine that awaits convert_all_files (the tests)
    conversion_type,  \* args.conversion_type / the converter class
    input_kind,       \* what input_files_path names: "absent", "file", "dir"
    input_dir,        \* the names of the entries of the input directory
    output_kind,      \* what output_files_path names: "absent", "file", "dir"
    output_kind0,     \* output_kind when the run started
    output_files,     \* the files under output_files_path: name -> record
    temp_files,       \* live NamedTemporaryFile(delete=False) files per job
    pc,               \* where the program is
    call,             \* convert_all_files: "not_called", "active",
                      \* "returned", "raised"
    err,              \* the exception that left convert_all_files
    input_files,      \* self._input_files
    file_groups,      \* file_groups of JPGToPDFConverter, as its items
    jobs,             \* conversion_tasks: the units and their output paths
    task,             \* per job, the state of its asyncio task
    work,             \* per job, the state of its executor work item
    progress,         \* per job, how far _convert_sync has come
    job_err,          \* per job, the exception its conversion raised
    gather,           \* the future asyncio.gather returned
    exit_status,      \* the exit status of the command, -1 while it runs
    run,              \* 1 in the first run on the directories, 2 in a rerun
    first_run         \* in a rerun: how the first run ended and what it left

vars == <<layout, entry, conversion_type, input_kind, input_dir, output_kind,
          output_kind0, output_files, temp_files, pc, call, err, input_files,
          file_groups, jobs, task, work, progress, job_err, gather,
          exit_status, run, first_run>>

\* What a run never changes: the configuration and the input directory,
\* which the program only reads, and what came before the run.
config == <<layout, entry, conversion_type, input_kind, input_dir,
            output_kind0, run, first_run>>

\* The state of the jobs.
job_vars == <<jobs, task, work, progress, job_err, gather>>

\* The file names a directory of the model may hold: four stems with the
\* converter's input extension, and one entry of another type.
OtherName == <<"n", ".", "t", "x", "t">>

Stems(ext) == {<<>>, ext, <<"a">>, <<"a", "1">>}

Names(ext) == {s \o ext : s \in Stems(ext)} \cup {OtherName}

\* All orders in which a set of names can be enumerated.
Orders(S) ==
    {f \in [1..Cardinality(S) -> S] : \A i, j \in 1..Cardinality(S) :
                                         i # j => f[i] # f[j]}

\* The state before the first step: a converter class of one layout, an
\* input path, an output path, and no job.
InitWith(types, dirs) ==
    /\ layout \in Layouts
    /\ entry \in {"main", "await"}
    /\ entry = "main" => layout = "convertor"
    /\ conversion_type \in types
    /\ conversion_type = "unknown" => entry = "main"
    /\ input_kind \in {"absent", "file", "dir"}
    /\ input_dir \in IF input_kind = "dir" /\ conversion_type \in converter_map
                     THEN dirs[conversion_type]
                     ELSE {{}}
    /\ output_kind \in {"absent", "file", "dir"}
    /\ output_kind0 = output_kind
    /\ output_files = <<>>
    /\ temp_files = <<>>
    /\ pc = IF entry = "main" THEN "parse_args" ELSE "start"
    /\ call = "not_called"
    /\ err = "none"
    /\ input_files = <<>>
    /\ file_groups = <<>>
    /\ jobs = <<>>
    /\ task = <<>>
    /\ work = <<>>
    /\ progress = <<>>
    /\ job_err = <<>>
    /\ gather = [state |-> "none", job |-> 0]
    /\ exit_status = -1
    /\ run = 1
    /\ first_run = [call |-> "not_called", files |-> <<>>]

Init ==
    InitWith(converter_map \cup {"unknown"},
             [ct \in converter_map |->
                {d \in SUBSET Names(input_extension(ct)) :
                    Cardinality(d) <= MaxFiles}])

(***************************************************************************)
(* The command (main.py).                                                  *)
(***************************************************************************)
\* parser.parse_args() and the construction of the converter: argparse ends
\* the process with status 2 when --conversion_type is not one of choices.
parse_args ==
    /\ pc = "parse_args"
    /\ IF conversion_type \in converter_map
       THEN /\ pc' = "start"
            /\ UNCHANGED exit_status
       ELSE /\ pc' = "exited"
            /\ exit_status' = 2
    /\ UNCHANGED <<config, output_kind, output_files, temp_files, call, err,
                   input_files, file_groups, job_vars>>

(***************************************************************************)
(* FileManager.                                                            *)
(***************************************************************************)
\* __validate_file_path without its is_dir() check.
validate_file_path_exists_only(kind) ==
    IF kind = "absent" THEN "FileNotFoundError" ELSE "none"

\* __validate_file_path: the exception it raises, "none" when it returns.
validate_file_path(kind) ==
    IF kind = "absent" THEN "FileNotFoundError"
    ELSE IF kind # "dir" THEN "ValueError"
    ELSE "none"

\* self.path.glob(f"*{file_type}"): the entries whose name ends with
\* file_type, compared as the file system compares names (case matters on
\* POSIX).  The pattern has one component: "*" does not cross a "/", so a
\* file of a subdirectory, named here by its path below the directory, is
\* not matched.
glob(dir, file_type) ==
    {n \in dir : endswith(n, file_type) /\ \A i \in DOMAIN n : n[i] # "/"}

\* _get_all_files, that is load_multiple_files(self.input_extension): the
\* path is validated, then the matching entries are listed in the order the
\* file system enumerates them.
load_multiple_files ==
    /\ pc = "start"
    /\ IF validate_file_path(input_kind) # "none"
       THEN /\ call' = "raised"
            /\ err' = validate_file_path(input_kind)
            /\ pc' = "finished"
            /\ UNCHANGED input_files
       ELSE /\ call' = "active"
            /\ input_files' \in
                  Orders(glob(input_dir, input_extension(conversion_type)))
            /\ pc' = "loaded"
            /\ UNCHANGED err
    /\ UNCHANGED <<config, output_kind, output_files, temp_files,
                   file_groups, job_vars, exit_status>>

\* ensure_output_directory on a path in state kind: os.makedirs when the
\* path does not exist, nothing otherwise.
makedirs_if_absent(kind) == IF kind = "absent" THEN "dir" ELSE kind

(***************************************************************************)
(* convert_all_files.                                                      *)
(***************************************************************************)
\* report_empty were ensure_output_directory called before the test of
\* self._input_files: the output directory is created before the return.
report_empty_creates_dir ==
    /\ pc = "loaded"
    /\ input_files = <<>>
    /\ output_kind' = "dir"
    /\ call' = "returned"
    /\ pc' = "finished"
    /\ UNCHANGED <<config, output_files, temp_files, err, input_files,
                   file_groups, job_vars, exit_status>>

\* "if not self._input_files": the run reports that nothing was found and
\* returns.
report_empty ==
    /\ pc = "loaded"
    /\ input_files = <<>>
    /\ call' = "returned"
    /\ pc' = "finished"
    /\ UNCHANGED <<config, output_kind, output_files, temp_files, err,
                   input_files, file_groups, job_vars, exit_status>>

\* convert_all_files without its call of ensure_output_directory: the jobs
\* are scheduled on the output path as it is.
ensure_output_directory_omitted ==
    /\ pc = "loaded"
    /\ input_files # <<>>
    /\ pc' = "ensured"
    /\ UNCHANGED <<config, output_kind, output_files, temp_files, call, err,
                   input_files, file_groups, job_vars, exit_status>>

\* await self.ensure_output_directory(), reached when files were found.
ensure_output_directory ==
    /\ pc = "loaded"
    /\ input_files # <<>>
    /\ output_kind' = makedirs_if_absent(output_kind)
    /\ pc' = "ensured"
    /\ UNCHANGED <<config, output_files, temp_files, call, err, input_files,
                   file_groups, job_vars, exit_status>>

\* BaseConverter: one coroutine per input file, its output path made of the
\* file's base name and the output extension.
identity_units(files, out_ext) ==
    [i \in 1..Len(files) |->
        [sources |-> <<files[i]>>,
         output_path |-> splitext_root(files[i]) \o out_ext]]

\* JPGToPDFConverter: one coroutine per group, its output path
\* f"{base_name}.pdf".
group_units(groups) ==
    [i \in 1..Len(groups) |->
        [sources |-> groups[i].files,
         output_path |-> groups[i].key \o PDF]]

\* The units of the run and, for JPGToPDFConverter, its file_groups.
groups_of(ct, files) ==
    IF ct = "jpg_to_pdf" THEN group_files(files, <<>>) ELSE <<>>

units_of(ct, files) ==
    IF ct = "jpg_to_pdf"
    THEN group_units(groups_of(ct, files))
    ELSE identity_units(files, output_extension(ct))

\* The loop that fills conversion_tasks and the call of asyncio.gather,
\* which wraps every coroutine in a task and schedules it.
schedule ==
    /\ pc = "ensured"
    /\ file_groups' = groups_of(conversion_type, input_files)
    /\ jobs' = units_of(conversion_type, input_files)
    /\ task' = [j \in DOMAIN jobs' |-> "pending"]
    /\ work' = [j \in DOMAIN jobs' |-> "none"]
    /\ progress' = [j \in DOMAIN jobs' |-> 0]
    /\ job_err' = [j \in DOMAIN jobs' |-> "none"]
    /\ temp_files' = [j \in DOMAIN jobs' |-> 0]
    /\ gather' = [state |-> "waiting", job |-> 0]
    /\ pc' = "gather"
    /\ UNCHANGED <<config, output_kind, output_files, call, err, input_files,
                   exit_status>>

(***************************************************************************)
(* The conversions (_convert_sync of each converter class).                *)
(***************************************************************************)
\* The characters of the model's file names in code-point order.
Alphabet ==
    <<" ", "-", ".", "0", "1", "2", "3", "4", "5", "6", "7", "8", "9", "_",
      "a", "b", "c", "d", "e", "f", "g", "h", "i", "j", "k", "l", "m", "n",
      "o", "p", "q", "r", "s", "t", "u", "v", "w", "x", "y", "z">>

ord(c) == CHOOSE i \in 1..Len(Alphabet) : Alphabet[i] = c

\* a < b of two str values.
RECURSIVE str_less(_, _)
str_less(a, b) ==
    IF b = <<>> THEN FALSE
    ELSE IF a = <<>> THEN TRUE
    ELSE IF Head(a) # Head(b) THEN ord(Head(a)) < ord(Head(b))
    ELSE str_less(Tail(a), Tail(b))

RECURSIVE insert_sorted(_, _)
insert_sorted(x, s) ==
    IF s = <<>> THEN <<x>>
    ELSE IF str_less(x, Head(s)) THEN <<x>> \o s
    ELSE <<Head(s)>> \o insert_sorted(x, Tail(s))

\* _convert_sync without its image_paths.sort(): the list stays in the order
\* the files were discovered.
sorted_noop(s) == s

\* list.sort() of a list of paths of one directory.
RECURSIVE sorted(_)
sorted(s) == IF s = <<>> THEN <<>> ELSE insert_sorted(Head(s), sorted(Tail(s)))

\* str(n) of a page number.
RECURSIVE str(_)
str(n) ==
    IF n < 10 THEN <<Alphabet[n + 4]>>
    ELSE str(n \div 10) \o <<Alphabet[(n % 10) + 4]>>

\* f"{output_base_path}_page{page_num+1}.jpg" of PDFToJPGConverter.
page_path(output_path, page) ==
    splitext_root(output_path) \o <<"_", "p", "a", "g", "e">> \o str(page) \o JPG

\* The file system after job j wrote name: content is "empty" after open()
\* and "full" after the write, and made_from holds the sources the written
\* bytes were converted from.  writers remembers which jobs of the run wrote
\* the file.
write_file(files, name, j, content) ==
    (name :> [content |-> content,
              made_from |-> IF content = "empty" THEN <<>> ELSE jobs[j].sources,
              writers |-> (IF name \in DOMAIN files
                           THEN files[name].writers ELSE {}) \cup {j}])
    @@ files

converter_kind == convert_kind(layout, conversion_type)

\* Job j's work item ends with exception e; the frame of _convert_sync,
\* and with it the loop's position, is gone.
work_raises(j, e) ==
    /\ work' = [work EXCEPT ![j] = "raised"]
    /\ job_err' = [job_err EXCEPT ![j] = e]
    /\ progress' = [progress EXCEPT ![j] = 0]

\* Job j's work item returns.
work_returns(j) ==
    /\ work' = [work EXCEPT ![j] = "returned"]
    /\ progress' = [progress EXCEPT ![j] = 0]
    /\ UNCHANGED job_err

\* Job j writes name and goes on, or returns when the write was its last
\* statement; the write raises when the output path is no directory.
write_or_fail(j, name, content, returns) ==
    IF output_kind # "dir"
    THEN /\ work_raises(j, "NotADirectoryError")
         /\ UNCHANGED output_files
    ELSE /\ output_files' = write_file(output_files, name, j, content)
         /\ IF returns
            THEN work_returns(j)
            ELSE /\ progress' = [progress EXCEPT ![j] = @ + 1]
                 /\ UNCHANGED <<work, job_err>>

\* The next step of job j's _convert_sync in its worker thread.
convert_sync_step(j) ==
    /\ work[j] = "running"
    /\ LET p == progress[j]
           out == jobs[j].output_path
       IN  CASE converter_kind = "write" ->
                  \* cv.convert / shutil.copy / write_pdf / to_excel
                  /\ write_or_fail(j, out, "full", TRUE)
                  /\ UNCHANGED <<jobs, file_groups, temp_files>>
             [] converter_kind = "open_write" ->
                  IF p = 0
                  THEN \* image_paths.sort(), which sorts the list that
                       \* file_groups holds; open(output_path, "wb")
                       /\ jobs' = [jobs EXCEPT ![j].sources = sorted(@)]
                       /\ file_groups' =
                             [file_groups EXCEPT ![j].files = sorted(@)]
                       /\ write_or_fail(j, out, "empty", FALSE)
                       /\ UNCHANGED temp_files
                  ELSE \* f.write(img2pdf.convert(image_paths))
                       /\ write_or_fail(j, out, "full", TRUE)
                       /\ UNCHANGED <<jobs, file_groups, temp_files>>
             [] converter_kind = "pages" ->
                  \* pix.save of the next page, or pdf_document.close()
                  \* after the last one
                  \/ /\ p < MaxPages
                     /\ write_or_fail(j, page_path(out, p + 1), "full", FALSE)
                     /\ UNCHANGED <<jobs, file_groups, temp_files>>
                  \/ /\ p >= 1
                     /\ work_returns(j)
                     /\ UNCHANGED <<jobs, file_groups, temp_files,
                                    output_files>>
             [] converter_kind = "slides" ->
                  \* the next page: its image is written to a temporary
                  \* file, add_picture reads the file and os.unlink
                  \* removes it; or prs.save(output_path) after the last
                  \* page
                  \/ /\ p < MaxPages
                     /\ progress' = [progress EXCEPT ![j] = p + 1]
                     /\ UNCHANGED <<jobs, file_groups, temp_files,
                                    output_files, work, job_err>>
                  \/ /\ p >= 1
                     /\ write_or_fail(j, out, "full", TRUE)
                     /\ UNCHANGED <<jobs, file_groups, temp_files>>
             [] converter_kind = "undefined" ->
                  \* convert(docx_path, output_path): convertor.py imports
                  \* docx2pdf's convert as docx_to_pdf, so the name is unbound
                  /\ work_raises(j, "NameError")
                  /\ UNCHANGED <<jobs, file_groups, temp_files, output_files>>
    /\ UNCHANGED <<config, output_kind, pc, call, err, input_files, task,
                   gather, exit_status>>

\* The temporary files of job j after a library call of its _convert_sync
\* raised: PDFToPowerPointConverter's add_picture, when it is the call that
\* raised, leaves the page's temporary file, which only the os.unlink after
\* it removes.
temp_after_raise(j, in_add_picture) ==
    IF in_add_picture
    THEN [temp_files EXCEPT ![j] = @ + 1]
    ELSE temp_files

\* The library that does the conversion raises in job j's _convert_sync:
\* at any call of it, which for JPGToPDFConverter comes after open().
convert_sync_raise(j) ==
    /\ work[j] = "running"
    /\ \/ converter_kind \in {"write", "pages", "slides"}
       \/ converter_kind = "open_write" /\ progress[j] = 1
    /\ work_raises(j, "ConversionError")
    /\ \E in_add_picture \in BOOLEAN :
          /\ in_add_picture
                => converter_kind = "slides" /\ progress[j] < MaxPages
          /\ temp_files' = temp_after_raise(j, in_add_picture)
    /\ UNCHANGED <<config, output_kind, output_files, pc, call, err,
                   input_files, file_groups, jobs, task, gather, exit_status>>

(***************************************************************************)
(* The event loop and its default executor.                                *)
(***************************************************************************)
\* The worker threads of the loop's default ThreadPoolExecutor.  CPython
\* sizes the pool by the machine (min(32, cpu_count + 4)); the model keeps
\* it below the number of jobs so that work items also wait in its queue.
max_workers == 1

Jobs == DOMAIN jobs

\* asyncio.gather's callback for job j's task, which ended in state t: the
\* first exception ends the gather; so does the last result.
done_callback(j, t) ==
    IF gather.state # "waiting" THEN gather
    ELSE IF t = "failed" THEN [state |-> "exception", job |-> j]
    ELSE IF \A k \in Jobs \ {j} : task[k] = "done"
         THEN [state |-> "result", job |-> 0]
    ELSE gather

\* The first step of job j's task (_convert_single_file or
\* _convert_file_group up to its await).  The loop runs the tasks in the
\* order gather created them.  A placeholder prints and returns; the others
\* submit _convert_sync to the executor and wait for it.
task_first_step(j) ==
    /\ task[j] = "pending"
    /\ \A k \in Jobs : k < j => task[k] # "pending"
    /\ IF uses_executor(layout, conversion_type)
       THEN /\ task' = [task EXCEPT ![j] = "awaiting"]
            /\ work' = [work EXCEPT ![j] = "queued"]
            /\ UNCHANGED gather
       ELSE /\ task' = [task EXCEPT ![j] = "done"]
            /\ gather' = done_callback(j, "done")
            /\ UNCHANGED work
    /\ UNCHANGED <<config, output_kind, output_files, temp_files, pc, call,
                   err, input_files, file_groups, jobs, progress, job_err,
                   exit_status>>

\* A free worker thread takes the oldest work item of the queue.
executor_start(j) ==
    /\ work[j] = "queued"
    /\ \A k \in Jobs : k < j => work[k] # "queued"
    /\ Cardinality({k \in Jobs : work[k] = "running"}) < max_workers
    /\ work' = [work EXCEPT ![j] = "running"]
    /\ UNCHANGED <<config, output_kind, output_files, temp_files, pc, call,
                   err, input_files, file_groups, jobs, task, progress,
                   job_err, gather, exit_status>>

\* The state job j's task ends in when its work item ended in state w.
task_outcome(w) == IF w = "raised" THEN "failed" ELSE "done"

\* Job j's task resumes after its work item ended: it prints "Converted"
\* and returns, or the work item's exception leaves it.  The loop handles
\* completions after the first steps of all tasks.
task_resume(j) ==
    /\ task[j] = "awaiting"
    /\ work[j] \in {"returned", "raised"}
    /\ \A k \in Jobs : task[k] # "pending"
    /\ task' = [task EXCEPT ![j] = task_outcome(work[j])]
    /\ gather' = done_callback(j, task_outcome(work[j]))
    /\ UNCHANGED <<config, output_kind, output_files, temp_files, pc, call,
                   err, input_files, file_groups, jobs, work, progress,
                   job_err, exit_status>>

\* How "await asyncio.gather(*conversion_tasks)" ends for convert_all_files
\* once the gather future is done in state g.
gather_outcome(g) == IF g.state = "exception" THEN "raised" ELSE "returned"

\* convert_all_files resumes from the gather: with all results it prints
\* "All files converted successfully" and returns; with an exception the
\* exception leaves convert_all_files.
gather_wakeup ==
    /\ pc = "gather"
    /\ gather.state \in {"result", "exception"}
    /\ call' = gather_outcome(gather)
    /\ err' = IF gather.state = "exception" THEN job_err[gather.job] ELSE err
    /\ pc' = "finished"
    /\ UNCHANGED <<config, output_kind, output_files, temp_files,
                   input_files, file_groups, job_vars, exit_status>>

\* asyncio.run(main()) after main() ended: every task still pending is
\* cancelled, and with it its work item when no thread has taken it.
cancel_all_tasks ==
    /\ entry = "main"
    /\ pc = "finished"
    /\ task' = [j \in Jobs |->
                  IF task[j] \in {"pending", "awaiting"}
                  THEN "cancelled" ELSE task[j]]
    /\ work' = [j \in Jobs |->
                  IF work[j] = "queued" THEN "cancelled" ELSE work[j]]
    /\ pc' = "shutdown"
    /\ UNCHANGED <<config, output_kind, output_files, temp_files, call, err,
                   input_files, file_groups, jobs, progress, job_err, gather,
                   exit_status>>

\* The status the command exits with: 1 when an exception left main().
status_of(c) == IF c = "raised" THEN 1 ELSE 0

\* shutdown_default_executor waits for the running threads; then the
\* process ends.
process_exit ==
    /\ pc = "shutdown"
    /\ \A j \in Jobs : work[j] # "running"
    /\ exit_status' = status_of(call)
    /\ pc' = "exited"
    /\ UNCHANGED <<config, output_kind, output_files, temp_files, call, err,
                   input_files, file_groups, job_vars>>

(***************************************************************************)
(* The specification of a run.                                             *)
(***************************************************************************)
Next ==
    \/ parse_args
    \/ load_multiple_files
    \/ report_empty
    \/ ensure_output_directory
    \/ schedule
    \/ \E j \in Jobs : task_first_step(j)
    \/ \E j \in Jobs : executor_start(j)
    \/ \E j \in Jobs : convert_sync_step(j)
    \/ \E j \in Jobs : convert_sync_raise(j)
    \/ \E j \in Jobs : task_resume(j)
    \/ gather_wakeup
    \/ cancel_all_tasks
    \/ process_exit

Spec == Init /\ [][Next]_vars

(***************************************************************************)
(* The specification of keyed grouping: JPGToPDFConverter up to the call   *)
(* of asyncio.gather, on directories of image sequences.                   *)
(***************************************************************************)
GroupStems ==
    {<<"i", "m", "g", "_", "1">>, <<"i", "m", "g", "_", "2">>,
     <<"i", "m", "g", "_", "1", "0">>, <<"c", "o", "v", "e", "r">>,
     <<"s", "1", "e", "2">>, <<"1", "2">>, <<"_", "1">>}

GroupNames == {s \o JPG : s \in GroupStems} \cup {OtherName}

InitGrouping ==
    InitWith({"jpg_to_pdf"},
             [ct \in converter_map |->
                {d \in SUBSET GroupNames : Cardinality(d) <= MaxGroupFiles}])

NextGrouping ==
    \/ parse_args
    \/ load_multiple_files
    \/ report_empty
    \/ ensure_output_directory
    \/ schedule

SpecGrouping == InitGrouping /\ [][NextGrouping]_vars

(***************************************************************************)
(* The specification of discovery: load_multiple_files on directories that *)
(* also hold names in upper case and a file of a subdirectory.             *)
(***************************************************************************)
\* Most entries of the input directory in a run of SpecDiscovery.
MaxDiscoveryFiles == 3

LowerCase ==
    <<"a", "b", "c", "d", "e", "f", "g", "h", "i", "j", "k", "l", "m", "n",
      "o", "p", "q", "r", "s", "t", "u", "v", "w", "x", "y", "z">>

UpperCase ==
    <<"A", "B", "C", "D", "E", "F", "G", "H", "I", "J", "K", "L", "M", "N",
      "O", "P", "Q", "R", "S", "T", "U", "V", "W", "X", "Y", "Z">>

\* s.lower()
lower(s) ==
    [i \in DOMAIN s |->
        IF \E k \in DOMAIN UpperCase : UpperCase[k] = s[i]
        THEN LowerCase[CHOOSE k \in DOMAIN UpperCase : UpperCase[k] = s[i]]
        ELSE s[i]]

\* s.upper()
upper(s) ==
    [i \in DOMAIN s |->
        IF \E k \in DOMAIN LowerCase : LowerCase[k] = s[i]
        THEN UpperCase[CHOOSE k \in DOMAIN LowerCase : LowerCase[k] = s[i]]
        ELSE s[i]]

\* The entries of such a directory: two names with the extension, the name
\* B with the extension in upper case, a file of the subdirectory s, and
\* an entry of another type.
DiscoveryNames(ext) ==
    {<<"a">> \o ext, <<"a", "1">> \o ext, <<"B">> \o upper(ext),
     <<"s", "/", "c">> \o ext, OtherName}

InitDiscovery ==
    InitWith(converter_map,
             [ct \in converter_map |->
                {d \in SUBSET DiscoveryNames(input_extension(ct)) :
                    Cardinality(d) <= MaxDiscoveryFiles}])

NextDiscovery ==
    \/ parse_args
    \/ load_multiple_files
    \/ report_empty

SpecDiscovery == InitDiscovery /\ [][NextDiscovery]_vars

(***************************************************************************)
(* The specification of a rerun: the same command, or the same call, run a *)
(* second time on the directories the first run left.                      *)
(***************************************************************************)
\* What the output directory holds: for every file its content and the
\* sources the content was converted from.
contents(files) ==
    [n \in DOMAIN files |->
        [content |-> files[n].content, made_from |-> files[n].made_from]]

\* The first run is over, with nothing of it left to happen, and the same
\* batch is started again: a new process or a new converter object, the
\* same input directory, and the output directory as the first run left it.
rerun ==
    /\ run = 1
    /\ conversion_type \in converter_map
    /\ \/ pc = "exited"
       \/ /\ entry = "await"
          /\ pc = "finished"
          /\ \A j \in Jobs : task[j] \in {"done", "failed"}
    /\ run' = 2
    /\ first_run' = [call |-> call, files |-> contents(output_files)]
    /\ output_files' =
          [n \in DOMAIN output_files |->
              [output_files[n] EXCEPT !.writers = {}]]
    /\ output_kind0' = output_kind
    /\ temp_files' = <<>>
    /\ pc' = IF entry = "main" THEN "parse_args" ELSE "start"
    /\ call' = "not_called"
    /\ err' = "none"
    /\ input_files' = <<>>
    /\ file_groups' = <<>>
    /\ jobs' = <<>>
    /\ task' = <<>>
    /\ work' = <<>>
    /\ progress' = <<>>
    /\ job_err' = <<>>
    /\ gather' = [state |-> "none", job |-> 0]
    /\ exit_status' = -1
    /\ UNCHANGED <<layout, entry, conversion_type, input_kind, input_dir,
                   output_kind>>

\* The converter classes of the reruns: one that writes its destination
\* path and the one that groups.  Their output depends on nothing but the
\* job's sources; the number of pages of a PDF, which the model chooses
\* while a job runs, plays no part in them.
RerunTypes == {"pdf_to_docx", "jpg_to_pdf"}

InitRerun ==
    InitWith(RerunTypes,
             [ct \in converter_map |->
                {d \in SUBSET Names(input_extension(ct)) :
                    Cardinality(d) <= MaxFiles}])

NextRerun ==
    \/ parse_args
    \/ load_multiple_files
    \/ report_empty
    \/ ensure_output_directory
    \/ schedule
    \/ \E j \in Jobs : task_first_step(j)
    \/ \E j \in Jobs : executor_start(j)
    \/ \E j \in Jobs : convert_sync_step(j)
    \/ \E j \in Jobs : convert_sync_raise(j)
    \/ \E j \in Jobs : task_resume(j)
    \/ gather_wakeup
    \/ cancel_all_tasks
    \/ process_exit
    \/ rerun

SpecRerun == InitRerun /\ [][NextRerun]_vars

(***************************************************************************)
(* The claims.                                                             *)
(***************************************************************************)
\* The jobs whose conversion raised.
FailedJobs == {j \in Jobs : work[j] = "raised"}

\* convert_all_files has handed control back to its caller.
Finished == call \in {"returned", "raised"}

\* Nothing of the run is left to happen: the command has exited, or the
\* awaited call has ended and so has every task.
RunOver ==
    \/ pc = "exited"
    \/ /\ entry = "await"
       /\ Finished
       /\ \A j \in Jobs : task[j] \in {"done", "failed", "cancelled"}

\* The input path is a directory: discovery succeeds.
ValidInput == validate_file_path(input_kind) = "none"

\* The elements of a sequence.
Range(s) == {s[i] : i \in DOMAIN s}

\* C1: when one unit's conversion raises, the error is caught and no
\* sibling job is cancelled or blocked: convert_all_files returns, and of
\* n units with one failing unit the other n - 1 have succeeded.
C1_FailureIsolated ==
    (Finished /\ Len(jobs) >= 2 /\ Cardinality(FailedJobs) = 1)
        => /\ call = "returned"
           /\ \A j \in Jobs \ FailedJobs : task[j] = "done"

\* C2: with a valid input directory and a usable output directory,
\* convert_all_files never raises, whatever subset of its units fail.
C2_NeverRaisesOnUnitFailure ==
    (ValidInput /\ output_kind0 \in {"absent", "dir"}) => call # "raised"

\* C3: when convert_all_files returns or raises, every job of the run is in
\* a terminal state, Succeeded or Failed.
C3_ReturnsAfterAllJobsEnded ==
    Finished => \A j \in Jobs : task[j] \in {"done", "failed"}

C5_InvalidInputRaisesFirst ==
    /\ (input_kind = "absent" /\ call # "not_called")
          => (call = "raised" /\ err = "FileNotFoundError")
    /\ (input_kind = "file" /\ call # "not_called")
          => (call = "raised" /\ err = "ValueError")
    /\ input_kind # "dir"
          => /\ output_kind = output_kind0
             /\ output_files = <<>>
             /\ jobs = <<>>

\* C5's case: the run on a missing input path has raised, and the absent
\* output directory was not created.
C5_Witness ==
    /\ input_kind = "absent"
    /\ call = "raised"
    /\ err = "FileNotFoundError"
    /\ output_kind0 = "absent"
    /\ output_kind = "absent"

\* C6: one job per convert-unit, and when the run is over the number of
\* files produced is the number of units less the failed ones.
C6_OneOutputPerSucceededUnit ==
    (RunOver /\ call # "not_called" /\ ValidInput)
        => /\ Len(jobs) = IF conversion_type = "jpg_to_pdf"
                          THEN Cardinality({group_key(f) :
                                               f \in Range(input_files)})
                          ELSE Len(input_files)
           /\ Cardinality(DOMAIN output_files)
                 = Len(jobs) - Cardinality(FailedJobs)

\* C7: the command exits with an error status exactly when the input
\* directory is invalid or the conversion type is unknown.
C7_ExitStatus ==
    pc = "exited"
        => (exit_status # 0
               <=> (~ValidInput \/ conversion_type \notin converter_map))

\* C8: two units with the same destination path stop the run before any
\* job is scheduled, so that no file is written by two units of one run.
C8_NoSilentOverwrite ==
    \A n \in DOMAIN output_files : Cardinality(output_files[n].writers) <= 1

\* The key of section 4.3: the stem without its trailing digits and then
\* without its trailing separators, or the stem when nothing is left.
trailing_key(name) ==
    LET k == rstrip(rstrip(stem(name), Digits), StripChars)
    IN  IF k = <<>> THEN stem(name) ELSE k

\* C9: every file's group key is its stem with only the trailing digits and
\* then the trailing separators removed, or the full stem when that is
\* empty; no key is empty.
C9_KeyStripsTrailingDigits ==
    \A i \in DOMAIN file_groups :
        /\ file_groups[i].key # <<>>
        /\ \A f \in Range(file_groups[i].files) :
              file_groups[i].key = trailing_key(f)

\* The groups whose files include f.
GroupsOf(f) == {i \in DOMAIN file_groups : f \in Range(file_groups[i].files)}

\* C10: the units of keyed grouping partition the discovered files: every
\* file is in exactly one unit, once; two files share a unit exactly when
\* their keys are equal; no unit is empty; each unit is one job.
C10_GroupsPartitionFiles ==
    (conversion_type = "jpg_to_pdf" /\ jobs # <<>>)
        => /\ \A f \in Range(input_files) : Cardinality(GroupsOf(f)) = 1
           /\ \A i \in DOMAIN file_groups :
                 /\ file_groups[i].files # <<>>
                 /\ Range(file_groups[i].files) \subseteq Range(input_files)
                 /\ Cardinality(Range(file_groups[i].files))
                       = Len(file_groups[i].files)
           /\ \A f, g \in Range(input_files) :
                 (GroupsOf(f) = GroupsOf(g)) <=> (group_key(f) = group_key(g))
           /\ DOMAIN jobs = DOMAIN file_groups
           /\ \A i \in DOMAIN jobs :
                 Range(jobs[i].sources) = Range(file_groups[i].files)

\* C10's case: img_1.jpg, img_2.jpg, img_10.jpg and cover.jpg have become
\* the unit "img" of three sources and the unit "cover" of one.
C10_Witness ==
    /\ input_dir = {<<"i", "m", "g", "_", "1">> \o JPG,
                    <<"i", "m", "g", "_", "2">> \o JPG,
                    <<"i", "m", "g", "_", "1", "0">> \o JPG,
                    <<"c", "o", "v", "e", "r">> \o JPG}
    /\ pc = "gather"
    /\ {<<file_groups[i].key, Range(file_groups[i].files)>> :
           i \in DOMAIN file_groups}
          = {<<(<<"i", "m", "g">>),
               {<<"i", "m", "g", "_", "1">> \o JPG,
                <<"i", "m", "g", "_", "2">> \o JPG,
                <<"i", "m", "g", "_", "1", "0">> \o JPG}>>,
             <<(<<"c", "o", "v", "e", "r">>),
               {<<"c", "o", "v", "e", "r">> \o JPG}>>}
    /\ {jobs[i].output_path : i \in DOMAIN jobs}
          = {<<"i", "m", "g">> \o PDF, <<"c", "o", "v", "e", "r">> \o PDF}

\* The jobs of JPGToPDFConverter that are at, or past, the call of
\* img2pdf.convert(image_paths).
AtTranscoder ==
    {j \in Jobs : /\ conversion_type = "jpg_to_pdf"
                  /\ \/ work[j] = "running" /\ progress[j] = 1
                     \/ work[j] = "returned"}

\* C11: the list of sources handed to img2pdf.convert for a unit of keyed
\* grouping is in ascending lexicographic order of its paths, and it is the
\* same list for every order in which the unit's files can be discovered.
C11_SourcesSortedForTranscoder ==
    \A j \in AtTranscoder :
        LET image_paths == jobs[j].sources
        IN  /\ \A a, b \in DOMAIN image_paths :
                  a < b => str_less(image_paths[a], image_paths[b])
            /\ \A o \in Orders(Range(image_paths)) : sorted(o) = image_paths

\* C11's case: a unit of two images that were discovered in descending
\* order is at the call of img2pdf.convert.
C11_Witness ==
    \E j \in AtTranscoder :
        /\ work[j] = "running"
        /\ Len(jobs[j].sources) = 2
        /\ group_files(input_files, <<>>)[j].files # jobs[j].sources

\* The output files job j has written.
WrittenBy(j) == {n \in DOMAIN output_files : j \in output_files[n].writers}

\* C12: under identity grouping every discovered file is a unit of its own,
\* the unit's destination path is the stem of the file's name followed by
\* the output extension, and a job that succeeded has written exactly one
\* file, the one at its destination path.
C12_IdentityUnitWritesDestination ==
    (conversion_type \in converter_map \ {"jpg_to_pdf"} /\ jobs # <<>>)
        => /\ Len(jobs) = Len(input_files)
           /\ \A j \in Jobs :
                 /\ jobs[j].sources = <<input_files[j]>>
                 /\ jobs[j].output_path
                       = stem(input_files[j]) \o output_extension(conversion_type)
                 /\ task[j] = "done" => WrittenBy(j) = {jobs[j].output_path}

\* The run is past the output-directory setup of a run that found files.
PastSetup == input_files # <<>> /\ pc \notin {"parse_args", "start", "loaded"}

\* C13: the setup of the output directory creates it when it is absent and
\* leaves it alone when it exists; when the output path cannot be used as a
\* directory (it names a regular file) the run fails at the setup, before
\* any job is scheduled.
C13_OutputSetupFailsBeforeScheduling ==
    /\ output_kind0 = "dir" => output_kind = "dir"
    /\ (output_kind0 = "absent" /\ PastSetup) => output_kind = "dir"
    /\ output_kind0 = "file" => jobs = <<>>
    /\ (output_kind0 = "file" /\ PastSetup) => call = "raised"

\* C14: when an invocation of _convert_sync has ended, by return or by an
\* exception, none of the temporary files it created is left.
C14_NoTempFileAfterInvocation ==
    \A j \in Jobs : work[j] \in {"returned", "raised"} => temp_files[j] = 0

\* C15: a job whose conversion failed leaves no empty or partly written
\* file at any path it wrote.
C15_NoPartialOutputAfterFailure ==
    \A j \in FailedJobs :
        \A n \in WrittenBy(j) : output_files[n].content # "empty"

\* The selected converter class is one whose conversion is not implemented.
NotImplementedConverter ==
    conversion_type \in converter_map /\ converter_kind = "placeholder"

\* C16: a conversion type whose converter is not implemented ends the run
\* with an error before any job exists (at the latest when there are files
\* to convert), and no run returns normally with a unit whose conversion
\* wrote nothing.
C16_UnimplementedIsFatal ==
    /\ NotImplementedConverter => jobs = <<>>
    /\ (NotImplementedConverter /\ Finished /\ input_files # <<>>)
          => call = "raised"
    /\ call = "returned" => \A j \in Jobs : WrittenBy(j) # {}

\* The entries directly inside the input directory whose name ends with
\* ext when case is ignored.
MatchingEntries(ext) ==
    {n \in input_dir : /\ \A i \in DOMAIN n : n[i] # "/"
                       /\ endswith(lower(n), lower(ext))}

\* C17: on a valid directory load_multiple_files does not raise, and it
\* returns, once each, exactly the entries directly inside the directory
\* whose name ends with the extension when case is ignored: the empty list
\* when there is none.
C17_DiscoveryIgnoresCase ==
    (ValidInput /\ call # "not_called")
        => /\ call # "raised"
           /\ Range(input_files)
                 = MatchingEntries(input_extension(conversion_type))
           /\ Cardinality(Range(input_files)) = Len(input_files)

\* C18: the jobs of a run are independent in every interleaving: no two of
\* them write the same file path, and no two of them work on the same
\* source, the only state of the run a job's conversion reads or sorts.
C18_JobsIndependent ==
    \A j, k \in Jobs :
        j # k => /\ WrittenBy(j) \cap WrittenBy(k) = {}
                 /\ Range(jobs[j].sources) \cap Range(jobs[k].sources) = {}

\* C19: when a batch that ran to its normal end is run again and again
\* runs to its normal end, the output directory holds what it held after
\* the first run: the same files, each with the same content.
C19_RerunLeavesSameOutput ==
    (run = 2 /\ first_run.call = "returned" /\ RunOver /\ call = "returned")
        => contents(output_files) = first_run.files

\* The output directory has been ensured: an absent one has been created.
OutputEnsured == output_kind0 = "absent" => output_kind = "dir"

\* C20: the steps of one convert_all_files come in the order discover,
\* ensure the output directory, schedule, report: jobs exist only after
\* discovery has found files and the output directory has been ensured, a
\* run that finds nothing never has a job, and the run returns only after
\* the jobs it scheduled.
C20_StepsInOrder ==
    /\ pc \in {"parse_args", "start", "loaded", "ensured"} => jobs = <<>>
    /\ pc = "ensured" => (call = "active" /\ input_files # <<>> /\ OutputEnsured)
    /\ jobs # <<>> => (call # "not_called" /\ input_files # <<>> /\ OutputEnsured)
    /\ (call # "not_called" /\ input_files = <<>>) => jobs = <<>>
    /\ (call = "returned" /\ jobs # <<>>) => \A j \in Jobs : task[j] = "done"

\* C20's case: a job is running in a worker thread, in the output directory
\* the run created after it had found the job's file.
C20_Witness ==
    /\ output_kind0 = "absent"
    /\ output_kind = "dir"
    /\ \E j \in Jobs : work[j] = "running" /\ jobs[j].sources[1] \in input_dir

\* C21: at the end of the run every job has been taken up by a worker and
\* has ended, succeeded or failed: none is left pending, running or
\* cancelled.
C21_EveryJobRunsToItsEnd ==
    RunOver
        => \A j \in Jobs :
              /\ task[j] \in {"done", "failed"}
              /\ work[j] \notin {"queued", "running", "cancelled"}

\* The layout that is not lay.
other_layout(lay) == IF lay = "convertor" THEN "file_converter" ELSE "convertor"

\* How a job of converter class ct can end in layout lay: the state of its
\* task, and whether it has written a file.  A placeholder returns having
\* written nothing; a call of an undefined name raises before any write;
\* the conversions through a library write when they succeed, and may have
\* written or not when they fail.
job_outcomes(lay, ct) ==
    CASE convert_kind(lay, ct) = "placeholder" ->
            {[task |-> "done", wrote |-> FALSE]}
      [] convert_kind(lay, ct) = "undefined" ->
            {[task |-> "failed", wrote |-> FALSE]}
      [] OTHER ->
            {[task |-> "done", wrote |-> TRUE],
             [task |-> "failed", wrote |-> TRUE],
             [task |-> "failed", wrote |-> FALSE]}

\* How job j has ended.
outcome(j) == [task |-> task[j], wrote |-> WrittenBy(j) # {}]

\* C22: the two layouts end every job alike: however a job of a run has
\* ended in one layout, the job of the same file can end so in the other
\* layout, for the same directories and the same conversion type.
C22_LayoutsEndJobsAlike ==
    conversion_type \in converter_map
        => \A j \in Jobs :
              task[j] \in {"done", "failed"}
                 => outcome(j) \in job_outcomes(other_layout(layout),
                                                conversion_type)

=============================================================================
